---- MODULE Spec2Model ----
(***************************************************************************)
(* State machine of the SolBox referral / gift-card ledger                 *)
(* (programs/solbox-contract-devnet/src/lib.rs).                           *)
(*                                                                         *)
(* One action per instruction handler.  A handler is an operator that runs *)
(* the handler body on the deserialized accounts and returns the result    *)
(* (error kind, the in-memory accounts at the point of return, the         *)
(* transfers invoked so far); the action then persists the accounts only   *)
(* when the handler returned Ok, as the program entry point does.          *)
(*                                                                         *)
(* The SolBox account is an input of every instruction: initialize        *)
(* creates one at a fresh address for whoever signs, and the other         *)
(* instructions act on the SolBox account they are handed.  The User       *)
(* accounts are not tied to a SolBox account, so solbox is a function      *)
(* from account addresses to SolBox accounts and users is shared by all.   *)
(*                                                                         *)
(* Abstractions: lamport amounts are scaled (denominations are 4 and 10    *)
(* instead of 200_000_000 and 1_000_000_000, and U64_MAX is a word bound   *)
(* above every sum and product the inputs of the specifications can        *)
(* form, as u64::MAX is above those of the lamport amounts); the outcome   *)
(* of a system-program transfer is an input of the environment; the        *)
(* timestamp fields, written from the clock and read by no handler, are    *)
(* left out, and so are the accounts a handler receives and never reads    *)
(* (user_account of buy_gift_card) or only hands to invoke() (founder).    *)
(***************************************************************************)
EXTENDS Integers, Sequences, FiniteSets, TLC

VARIABLES solbox, users, last

vars == <<solbox, users, last>>

----------------------------------------------------------------------------
(* Bounds of the model *)

\* scaled u64::MAX: checked_* operations fail above it
U64_MAX == 1000000000
\* largest number of purchases in the ledger specification (Spec)
MaxBuys == 2
\* largest number of relationships in the placement specification (SpecPlacement)
MaxRel == 5

\* u8::MAX: the width of referral_limit and of the per-referrer counter
U8_MAX == 255

----------------------------------------------------------------------------
(* Pubkeys *)

NoKey == "none"
\* w2 and w3 own the User accounts u2 and u3
Wallets == {"w1", "w2", "w3"}
UserAccounts == {"u2", "u3"}
\* addresses at which a SolBox account can be created
Ledgers == {"A", "B"}
FounderWallet == "wf"

(* Inputs of the ledger specification *)

\* the SolBox account most instructions are sent to, and the signer that
\* initializes it
MainLedger == {"A"}
MainOwners == {"w1"}
\* a second SolBox account, initialized by another signer, and the inputs of
\* the instructions sent to it
SecondLedger == {"B"}
SecondOwners == {"w2"}
SecondBuyers == {"w2"}
SecondAccounts == {"u3"}
SecondAmounts == {4}
SecondPackages == {10}
\* largest number of purchases on the second SolBox account
SecondBuys == 1
\* signers of the admin instructions
Admins == {"w1", "w2"}
\* signers of buy_gift_card and the referrer account they pass
Buyers == {"w2", "w3"}
ReferrerInputs == {"w3"}
\* User accounts passed to upgrade_package and grant_package
PackageAccounts == {"u2"}
\* pubkeys passed to the blacklist instructions: a wallet and the address of
\* its User account
BlacklistInputs == {"w2", "u2"}
\* amounts passed to buy / upgrade / grant (7 is not a denomination)
AmountInputs == {4, 10, 7}
\* arguments of update_commission_config
PercentageInputs == {50, 300}
LevelInputs == {1}

ConfigA ==
    [referral_limit |-> 2, commission_percentage |-> 50, commission_levels |-> 1,
     bonus_percentage |-> 30, valid_amounts |-> <<4, 10>>]
ConfigB ==
    [referral_limit |-> 1, commission_percentage |-> 60, commission_levels |-> 1,
     bonus_percentage |-> 50, valid_amounts |-> <<4, 10>>]
ConfigInputs == {ConfigA, ConfigB}
SecondConfigs == {ConfigA}

(* Inputs of the placement specification *)

PlacementBuyers == {"w2", "w3"}
PlacementReferrers == {"w1", "w2", "w3"}
PlacementAccounts == {"u3"}
PlacementAmounts == {4}
PlacementAdmins == {"w1"}
PlacementPercentages == {50}
PlacementBlacklist == {"w2"}

----------------------------------------------------------------------------
(* Checked u64 arithmetic: None on overflow / underflow / division by 0 *)

None == -1

checked_add(a, b) == IF a + b > U64_MAX THEN None ELSE a + b
checked_sub(a, b) == IF a < b THEN None ELSE a - b
checked_mul(a, b) == IF a * b > U64_MAX THEN None ELSE a * b
checked_div(a, b) == IF b = 0 THEN None ELSE a \div b

\* Vec::contains
Contains(vec, x) == \E i \in 1..Len(vec) : vec[i] = x

\* Vec::retain(|&x| x != user)
RECURSIVE Retain(_, _)
Retain(vec, user) ==
    IF vec = <<>> THEN <<>>
    ELSE IF Head(vec) # user THEN <<Head(vec)>> \o Retain(Tail(vec), user)
         ELSE Retain(Tail(vec), user)

----------------------------------------------------------------------------
(* find_spillover_position *)

\* the HashMap built by the first loop: referrer -> number of relationships
\* (a u8 in the source; a history of the model is far shorter than 255)
referral_counts(relationships, k) ==
    Cardinality({i \in 1..Len(relationships) : relationships[i].referrer = k})

\* mutant: the second loop scans the relationships from the end
find_spillover_position_FromEnd(relationships, referrer, limit) ==
    IF referral_counts(relationships, referrer) < limit
    THEN referrer
    ELSE LET avail == {i \in 1..Len(relationships) :
                          referral_counts(relationships, relationships[i].referrer) < limit}
         IN IF avail = {} THEN NoKey
            ELSE relationships[CHOOSE i \in avail : \A j \in avail : i >= j].referrer

\* mutant: the requested referrer is kept while its count is <= limit
find_spillover_position_OffByOne(relationships, referrer, limit) ==
    IF referral_counts(relationships, referrer) <= limit
    THEN referrer
    ELSE LET avail == {i \in 1..Len(relationships) :
                          referral_counts(relationships, relationships[i].referrer) < limit}
         IN IF avail = {} THEN NoKey
            ELSE relationships[CHOOSE i \in avail : \A j \in avail : i <= j].referrer

find_spillover_position(relationships, referrer, limit) ==
    IF referral_counts(relationships, referrer) < limit
    THEN referrer
    ELSE LET avail == {i \in 1..Len(relationships) :
                          referral_counts(relationships, relationships[i].referrer) < limit}
         IN IF avail = {} THEN NoKey
            ELSE relationships[CHOOSE i \in avail : \A j \in avail : i <= j].referrer

----------------------------------------------------------------------------
(* Handler results *)

Transfer(from, to, amount) == [from |-> from, to |-> to, amount |-> amount]

NoSplit == [final |-> NoKey, commission |-> 0, bonus |-> 0, founder_share |-> 0]

Result(err, sb, us, transfers, split) ==
    [err |-> err, solbox |-> sb, users |-> us, transfers |-> transfers, split |-> split]

----------------------------------------------------------------------------
(* Instruction handlers: the body of each handler on the in-memory accounts. *)
(* sb is the SolBox account, us the User accounts by address.               *)

update_config(sb, us, admin, new_config) ==
    IF admin # sb.owner THEN Result("Unauthorized", sb, us, <<>>, NoSplit)
    ELSE IF sb.paused THEN Result("ContractPaused", sb, us, <<>>, NoSplit)
    ELSE Result("Ok", [sb EXCEPT !.config = new_config], us, <<>>, NoSplit)

\* mutant: the instruction pauses and never resumes
toggle_pause_PauseOnly(sb, us, admin) ==
    IF admin # sb.owner THEN Result("Unauthorized", sb, us, <<>>, NoSplit)
    ELSE Result("Ok", [sb EXCEPT !.paused = TRUE], us, <<>>, NoSplit)

toggle_pause(sb, us, admin) ==
    IF admin # sb.owner THEN Result("Unauthorized", sb, us, <<>>, NoSplit)
    ELSE Result("Ok", [sb EXCEPT !.paused = ~sb.paused], us, <<>>, NoSplit)

\* mutant: the upgrade test is >= instead of >
upgrade_package_NonStrict(solbox_key, sb, us, user, new_package, transferOk) ==
    IF sb.paused THEN Result("ContractPaused", sb, us, <<>>, NoSplit)
    ELSE IF Contains(sb.blacklisted_users, user)
    THEN Result("UserBlacklisted", sb, us, <<>>, NoSplit)
    ELSE IF ~Contains(sb.config.valid_amounts, new_package)
    THEN Result("InvalidAmount", sb, us, <<>>, NoSplit)
    ELSE IF ~(new_package >= us[user].current_package)
    THEN Result("InvalidUpgrade", sb, us, <<>>, NoSplit)
    ELSE LET difference == checked_sub(new_package, us[user].current_package) IN
         IF difference = None THEN Result("ArithmeticError", sb, us, <<>>, NoSplit)
         ELSE IF ~transferOk THEN Result("TransferFailed", sb, us, <<>>, NoSplit)
         ELSE Result("Ok", sb, [us EXCEPT ![user].current_package = new_package],
                     <<Transfer(user, solbox_key, difference)>>, NoSplit)

\* user is the address of the User account passed as ctx.accounts.user;
\* user.key() is that address
upgrade_package(solbox_key, sb, us, user, new_package, transferOk) ==
    IF sb.paused THEN Result("ContractPaused", sb, us, <<>>, NoSplit)
    ELSE IF Contains(sb.blacklisted_users, user)
    THEN Result("UserBlacklisted", sb, us, <<>>, NoSplit)
    ELSE IF ~Contains(sb.config.valid_amounts, new_package)
    THEN Result("InvalidAmount", sb, us, <<>>, NoSplit)
    ELSE IF ~(new_package > us[user].current_package)
    THEN Result("InvalidUpgrade", sb, us, <<>>, NoSplit)
    ELSE LET difference == checked_sub(new_package, us[user].current_package) IN
         IF difference = None THEN Result("ArithmeticError", sb, us, <<>>, NoSplit)
         ELSE IF ~transferOk THEN Result("TransferFailed", sb, us, <<>>, NoSplit)
         ELSE Result("Ok", sb, [us EXCEPT ![user].current_package = new_package],
                     <<Transfer(user, solbox_key, difference)>>, NoSplit)

\* amount * percentage / 100, checked (the commission and the bonus)
calc_share(amount, percentage) ==
    LET product == checked_mul(amount, percentage) IN
    IF product = None THEN None ELSE checked_div(product, 100)

\* mutant: the bonus is not withheld from the founder's share
calc_founder_share_NoBonus(amount, commission, bonus) ==
    checked_sub(amount, commission)

\* mutant: saturating instead of checked subtraction
calc_founder_share_Saturating(amount, commission, bonus) ==
    IF amount < commission + bonus THEN 0 ELSE amount - commission - bonus

\* amount - commission - bonus, checked
calc_founder_share(amount, commission, bonus) ==
    LET rest == checked_sub(amount, commission) IN
    IF rest = None THEN None ELSE checked_sub(rest, bonus)

\* mutant: an empty search falls back to the requested referrer
resolve_final_referrer_Fallback(sb, referrer) ==
    IF sb.referral_count >= sb.config.referral_limit
    THEN LET found == find_spillover_position(sb.referral_relationships, referrer,
                                              sb.config.referral_limit)
         IN IF found = NoKey THEN referrer ELSE found
    ELSE referrer

\* mutant: the search is consulted only above the limit
resolve_final_referrer_Strict(sb, referrer) ==
    IF sb.referral_count > sb.config.referral_limit
    THEN find_spillover_position(sb.referral_relationships, referrer,
                                 sb.config.referral_limit)
    ELSE referrer

\* the referrer credited: the spillover search once the ledger holds at least
\* referral_limit relationships, the requested referrer before that
\* (NoKey: the search found nobody)
resolve_final_referrer(sb, referrer) ==
    IF sb.referral_count >= sb.config.referral_limit
    THEN find_spillover_position(sb.referral_relationships, referrer,
                                 sb.config.referral_limit)
    ELSE referrer

\* mutant: referral_count is not incremented with the push
buy_gift_card_NoCount(sb, us, user, referrer, referrer_user_account, amount, transfer1Ok, transfer2Ok) ==
    IF sb.paused THEN Result("ContractPaused", sb, us, <<>>, NoSplit)
    ELSE IF Contains(sb.blacklisted_users, user)
    THEN Result("UserBlacklisted", sb, us, <<>>, NoSplit)
    ELSE IF ~Contains(sb.config.valid_amounts, amount)
    THEN Result("InvalidAmount", sb, us, <<>>, NoSplit)
    ELSE IF ~(user # referrer)
    THEN Result("SelfReferralNotAllowed", sb, us, <<>>, NoSplit)
    ELSE
    LET commission == calc_share(amount, sb.config.commission_percentage) IN
    IF commission = None THEN Result("ArithmeticError", sb, us, <<>>, NoSplit) ELSE
    LET bonus == calc_share(amount, sb.config.bonus_percentage) IN
    IF bonus = None THEN Result("ArithmeticError", sb, us, <<>>, NoSplit) ELSE
    LET final_referrer == resolve_final_referrer(sb, referrer) IN
    IF final_referrer = NoKey
    THEN Result("NoSpilloverAvailable", sb, us, <<>>, NoSplit) ELSE
    LET sold == checked_add(sb.total_sold, amount) IN
    IF sold = None THEN Result("ArithmeticError", sb, us, <<>>, NoSplit) ELSE
    LET sb1 == [sb EXCEPT !.total_sold = sold]
        dist == checked_add(sb.total_commission_distributed, commission)
    IN
    IF dist = None THEN Result("ArithmeticError", sb1, us, <<>>, NoSplit) ELSE
    LET sb2 == [sb1 EXCEPT !.total_commission_distributed = dist]
        cnt == checked_add(sb.referral_count, 1)
    IN
    IF cnt = None THEN Result("ArithmeticError", sb2, us, <<>>, NoSplit) ELSE
    LET sb3 == [sb2 EXCEPT !.referral_relationships =
                    Append(@, [user |-> user, referrer |-> final_referrer])]
        earn == checked_add(us[referrer_user_account].total_earnings, commission)
    IN
    IF earn = None THEN Result("ArithmeticError", sb3, us, <<>>, NoSplit) ELSE
    LET us1 == [us EXCEPT ![referrer_user_account].total_earnings = earn]
        tr1 == <<Transfer(user, final_referrer, commission)>>
    IN
    IF ~transfer1Ok THEN Result("TransferFailed", sb3, us1, <<>>, NoSplit) ELSE
    LET founder_share == calc_founder_share(amount, commission, bonus) IN
    IF founder_share = None THEN Result("ArithmeticError", sb3, us1, tr1, NoSplit) ELSE
    IF ~transfer2Ok THEN Result("TransferFailed", sb3, us1, tr1, NoSplit) ELSE
    Result("Ok", sb3, us1,
           tr1 \o <<Transfer(user, sb.founder_wallet, founder_share)>>,
           [final |-> final_referrer, commission |-> commission, bonus |-> bonus,
            founder_share |-> founder_share])

\* mutant: the result of the transfer to the founder is dropped instead of
\* propagated with ?
buy_gift_card_IgnoreTransferError(sb, us, user, referrer, referrer_user_account, amount, transfer1Ok, transfer2Ok) ==
    IF sb.paused THEN Result("ContractPaused", sb, us, <<>>, NoSplit)
    ELSE IF Contains(sb.blacklisted_users, user)
    THEN Result("UserBlacklisted", sb, us, <<>>, NoSplit)
    ELSE IF ~Contains(sb.config.valid_amounts, amount)
    THEN Result("InvalidAmount", sb, us, <<>>, NoSplit)
    ELSE IF ~(user # referrer)
    THEN Result("SelfReferralNotAllowed", sb, us, <<>>, NoSplit)
    ELSE
    LET commission == calc_share(amount, sb.config.commission_percentage) IN
    IF commission = None THEN Result("ArithmeticError", sb, us, <<>>, NoSplit) ELSE
    LET bonus == calc_share(amount, sb.config.bonus_percentage) IN
    IF bonus = None THEN Result("ArithmeticError", sb, us, <<>>, NoSplit) ELSE
    LET final_referrer == resolve_final_referrer(sb, referrer) IN
    IF final_referrer = NoKey
    THEN Result("NoSpilloverAvailable", sb, us, <<>>, NoSplit) ELSE
    LET sold == checked_add(sb.total_sold, amount) IN
    IF sold = None THEN Result("ArithmeticError", sb, us, <<>>, NoSplit) ELSE
    LET sb1 == [sb EXCEPT !.total_sold = sold]
        dist == checked_add(sb.total_commission_distributed, commission)
    IN
    IF dist = None THEN Result("ArithmeticError", sb1, us, <<>>, NoSplit) ELSE
    LET sb2 == [sb1 EXCEPT !.total_commission_distributed = dist]
        cnt == checked_add(sb.referral_count, 1)
    IN
    IF cnt = None THEN Result("ArithmeticError", sb2, us, <<>>, NoSplit) ELSE
    LET sb3 == [sb2 EXCEPT !.referral_count = cnt,
                           !.referral_relationships =
                               Append(@, [user |-> user, referrer |-> final_referrer])]
        earn == checked_add(us[referrer_user_account].total_earnings, commission)
    IN
    IF earn = None THEN Result("ArithmeticError", sb3, us, <<>>, NoSplit) ELSE
    LET us1 == [us EXCEPT ![referrer_user_account].total_earnings = earn]
        tr1 == <<Transfer(user, final_referrer, commission)>>
    IN
    IF ~transfer1Ok THEN Result("TransferFailed", sb3, us1, <<>>, NoSplit) ELSE
    LET founder_share == calc_founder_share(amount, commission, bonus) IN
    IF founder_share = None THEN Result("ArithmeticError", sb3, us1, tr1, NoSplit) ELSE
    Result("Ok", sb3, us1,
           IF transfer2Ok
           THEN tr1 \o <<Transfer(user, sb.founder_wallet, founder_share)>>
           ELSE tr1,
           [final |-> final_referrer, commission |-> commission, bonus |-> bonus,
            founder_share |-> founder_share])

\* user and referrer are the keys of the signer and of the referrer system
\* account; referrer_user_account is the address of the User account passed
\* under that name; transfer1Ok / transfer2Ok are the outcomes of the two
\* invoke() calls
buy_gift_card(sb, us, user, referrer, referrer_user_account, amount, transfer1Ok, transfer2Ok) ==
    IF sb.paused THEN Result("ContractPaused", sb, us, <<>>, NoSplit)
    ELSE IF Contains(sb.blacklisted_users, user)
    THEN Result("UserBlacklisted", sb, us, <<>>, NoSplit)
    ELSE IF ~Contains(sb.config.valid_amounts, amount)
    THEN Result("InvalidAmount", sb, us, <<>>, NoSplit)
    ELSE IF ~(user # referrer)
    THEN Result("SelfReferralNotAllowed", sb, us, <<>>, NoSplit)
    ELSE
    LET commission == calc_share(amount, sb.config.commission_percentage) IN
    IF commission = None THEN Result("ArithmeticError", sb, us, <<>>, NoSplit) ELSE
    LET bonus == calc_share(amount, sb.config.bonus_percentage) IN
    IF bonus = None THEN Result("ArithmeticError", sb, us, <<>>, NoSplit) ELSE
    LET final_referrer == resolve_final_referrer(sb, referrer) IN
    IF final_referrer = NoKey
    THEN Result("NoSpilloverAvailable", sb, us, <<>>, NoSplit) ELSE
    LET sold == checked_add(sb.total_sold, amount) IN
    IF sold = None THEN Result("ArithmeticError", sb, us, <<>>, NoSplit) ELSE
    LET sb1 == [sb EXCEPT !.total_sold = sold]
        dist == checked_add(sb.total_commission_distributed, commission)
    IN
    IF dist = None THEN Result("ArithmeticError", sb1, us, <<>>, NoSplit) ELSE
    LET sb2 == [sb1 EXCEPT !.total_commission_distributed = dist]
        cnt == checked_add(sb.referral_count, 1)
    IN
    IF cnt = None THEN Result("ArithmeticError", sb2, us, <<>>, NoSplit) ELSE
    LET sb3 == [sb2 EXCEPT !.referral_count = cnt,
                           !.referral_relationships =
                               Append(@, [user |-> user, referrer |-> final_referrer])]
        earn == checked_add(us[referrer_user_account].total_earnings, commission)
    IN
    IF earn = None THEN Result("ArithmeticError", sb3, us, <<>>, NoSplit) ELSE
    LET us1 == [us EXCEPT ![referrer_user_account].total_earnings = earn]
        tr1 == <<Transfer(user, final_referrer, commission)>>
    IN
    IF ~transfer1Ok THEN Result("TransferFailed", sb3, us1, <<>>, NoSplit) ELSE
    LET founder_share == calc_founder_share(amount, commission, bonus) IN
    IF founder_share = None THEN Result("ArithmeticError", sb3, us1, tr1, NoSplit) ELSE
    IF ~transfer2Ok THEN Result("TransferFailed", sb3, us1, tr1, NoSplit) ELSE
    Result("Ok", sb3, us1,
           tr1 \o <<Transfer(user, sb.founder_wallet, founder_share)>>,
           [final |-> final_referrer, commission |-> commission, bonus |-> bonus,
            founder_share |-> founder_share])

\* mutant: no owner check
grant_package_NoOwnerCheck(sb, us, admin, user, package) ==
    IF ~Contains(sb.config.valid_amounts, package)
    THEN Result("InvalidAmount", sb, us, <<>>, NoSplit)
    ELSE Result("Ok", sb, [us EXCEPT ![user].current_package = package], <<>>, NoSplit)

\* user is the address of the User account passed as ctx.accounts.user (the
\* Pubkey argument of the same name only goes into the event)
grant_package(sb, us, admin, user, package) ==
    IF admin # sb.owner THEN Result("Unauthorized", sb, us, <<>>, NoSplit)
    ELSE IF ~Contains(sb.config.valid_amounts, package)
    THEN Result("InvalidAmount", sb, us, <<>>, NoSplit)
    ELSE Result("Ok", sb, [us EXCEPT ![user].current_package = package], <<>>, NoSplit)

update_commission_config(sb, us, admin, new_percentage, new_levels) ==
    IF admin # sb.owner THEN Result("Unauthorized", sb, us, <<>>, NoSplit)
    ELSE Result("Ok",
                [sb EXCEPT !.config.commission_percentage = new_percentage,
                           !.config.commission_levels = new_levels],
                us, <<>>, NoSplit)

add_to_blacklist(sb, us, admin, user) ==
    IF admin # sb.owner THEN Result("Unauthorized", sb, us, <<>>, NoSplit)
    ELSE Result("Ok",
                IF ~Contains(sb.blacklisted_users, user)
                THEN [sb EXCEPT !.blacklisted_users = Append(@, user)]
                ELSE sb,
                us, <<>>, NoSplit)

remove_from_blacklist(sb, us, admin, user) ==
    IF admin # sb.owner THEN Result("Unauthorized", sb, us, <<>>, NoSplit)
    ELSE Result("Ok", [sb EXCEPT !.blacklisted_users = Retain(@, user)],
                us, <<>>, NoSplit)

----------------------------------------------------------------------------
(* The program entry point: the accounts are written back and the invoked  *)
(* transfers take effect only when the handler returned Ok; an Err aborts  *)
(* the instruction and nothing of it is kept.                              *)

\* an address at which no SolBox account has been created
Uninit == [uninitialized |-> TRUE]

Live(sb) == sb # Uninit

\* Account<'info, SolBox> of an instruction handed an address that holds no
\* SolBox account: the accounts are rejected before the handler runs
NotInitialized(sb, us) == Result("AccountNotInitialized", sb, us, <<>>, NoSplit)

Persist(r, sb, us) ==
    IF r.err = "Ok"
    THEN [solbox |-> r.solbox, users |-> r.users, transfers |-> r.transfers]
    ELSE [solbox |-> sb, users |-> us, transfers |-> <<>>]

\* the record of the last instruction: its name, the SolBox account it was
\* sent to, its inputs, error kind, the transfers that took effect and the
\* values of the purchase event
Call(op, ledger, signer, referrer, account, amount, r, p) ==
    [op |-> op, ledger |-> ledger, signer |-> signer, referrer |-> referrer,
     account |-> account, amount |-> amount, err |-> r.err,
     transfers |-> p.transfers,
     split |-> IF r.err = "Ok" THEN r.split ELSE NoSplit]

Dispatch(op, ledger, signer, referrer, account, amount, r) ==
    LET p == Persist(r, solbox[ledger], users) IN
    /\ solbox' = [solbox EXCEPT ![ledger] = p.solbox]
    /\ users' = p.users
    /\ last' = Call(op, ledger, signer, referrer, account, amount, r, p)

----------------------------------------------------------------------------
(* initialize *)

\* the handler body: the fields of the created SolBox account
initialize(owner, founder_wallet, config) ==
    [owner |-> owner, founder_wallet |-> founder_wallet, paused |-> FALSE,
     total_sold |-> 0, total_commission_distributed |-> 0, referral_count |-> 0,
     config |-> config, blacklisted_users |-> <<>>, referral_relationships |-> <<>>]

\* the User accounts as created: nothing bought, nothing earned
InitUsers ==
    [u \in UserAccounts |->
        [key |-> IF u = "u2" THEN "w2" ELSE "w3",
         current_package |-> 0, total_earnings |-> 0]]

\* the program as deployed: no SolBox account exists, no instruction was sent
Init ==
    /\ solbox = [l \in Ledgers |-> Uninit]
    /\ users = InitUsers
    /\ last = [op |-> "none", ledger |-> "A", signer |-> NoKey, referrer |-> NoKey,
               account |-> NoKey, amount |-> 0, err |-> "Ok", transfers |-> <<>>,
               split |-> NoSplit]

----------------------------------------------------------------------------
(* Actions: one instruction each, with its inputs drawn from the given sets *)

\* #[account(init)] creates the SolBox account and fails at an address that
\* is already in use; any signer can be the owner
InitializeOn(ledgers, owners, configs) ==
    \E l \in ledgers, owner \in owners, config \in configs :
        Dispatch("initialize", l, owner, NoKey, NoKey, 0,
                 IF Live(solbox[l])
                 THEN Result("AccountAlreadyInUse", solbox[l], users, <<>>, NoSplit)
                 ELSE Result("Ok", initialize(owner, FounderWallet, config), users,
                             <<>>, NoSplit))

UpdateConfigOn(ledgers, admins, configs) ==
    \E l \in ledgers, admin \in admins, new_config \in configs :
        Dispatch("update_config", l, admin, NoKey, NoKey, 0,
                 IF Live(solbox[l])
                 THEN update_config(solbox[l], users, admin, new_config)
                 ELSE NotInitialized(solbox[l], users))

TogglePauseOn(ledgers, admins) ==
    \E l \in ledgers, admin \in admins :
        Dispatch("toggle_pause", l, admin, NoKey, NoKey, 0,
                 IF Live(solbox[l])
                 THEN toggle_pause(solbox[l], users, admin)
                 ELSE NotInitialized(solbox[l], users))

UpgradePackageOn(ledgers, accounts, amounts) ==
    \E l \in ledgers, user \in accounts, new_package \in amounts,
       transferOk \in BOOLEAN :
        Dispatch("upgrade_package", l, NoKey, NoKey, user, new_package,
                 IF Live(solbox[l])
                 THEN upgrade_package(l, solbox[l], users, user, new_package,
                                      transferOk)
                 ELSE NotInitialized(solbox[l], users))

BuyGiftCardOn(ledgers, max, buyers, referrers, accounts, amounts) ==
    \E l \in ledgers :
        /\ Live(solbox[l]) => Len(solbox[l].referral_relationships) < max
        /\ \E user \in buyers, referrer \in referrers,
              referrer_user_account \in accounts, amount \in amounts,
              transfer1Ok \in BOOLEAN, transfer2Ok \in BOOLEAN :
            Dispatch("buy_gift_card", l, user, referrer, referrer_user_account,
                     amount,
                     IF Live(solbox[l])
                     THEN buy_gift_card(solbox[l], users, user, referrer,
                                        referrer_user_account, amount,
                                        transfer1Ok, transfer2Ok)
                     ELSE NotInitialized(solbox[l], users))

GrantPackageOn(ledgers, admins, accounts, amounts) ==
    \E l \in ledgers, admin \in admins, user \in accounts, package \in amounts :
        Dispatch("grant_package", l, admin, NoKey, user, package,
                 IF Live(solbox[l])
                 THEN grant_package(solbox[l], users, admin, user, package)
                 ELSE NotInitialized(solbox[l], users))

UpdateCommissionConfigOn(ledgers, admins, percentages, levels) ==
    \E l \in ledgers, admin \in admins, new_percentage \in percentages,
       new_levels \in levels :
        Dispatch("update_commission_config", l, admin, NoKey, NoKey, 0,
                 IF Live(solbox[l])
                 THEN update_commission_config(solbox[l], users, admin,
                                               new_percentage, new_levels)
                 ELSE NotInitialized(solbox[l], users))

AddToBlacklistOn(ledgers, admins, keys) ==
    \E l \in ledgers, admin \in admins, user \in keys :
        Dispatch("add_to_blacklist", l, admin, NoKey, user, 0,
                 IF Live(solbox[l])
                 THEN add_to_blacklist(solbox[l], users, admin, user)
                 ELSE NotInitialized(solbox[l], users))

RemoveFromBlacklistOn(ledgers, admins, keys) ==
    \E l \in ledgers, admin \in admins, user \in keys :
        Dispatch("remove_from_blacklist", l, admin, NoKey, user, 0,
                 IF Live(solbox[l])
                 THEN remove_from_blacklist(solbox[l], users, admin, user)
                 ELSE NotInitialized(solbox[l], users))

----------------------------------------------------------------------------
(* The ledger specification: every instruction on the main SolBox account, *)
(* with a short purchase history, next to a second SolBox account that     *)
(* another signer initializes and sells and grants through                 *)

Initialize == InitializeOn(MainLedger, MainOwners, ConfigInputs)
UpdateConfig == UpdateConfigOn(MainLedger, Admins, ConfigInputs)
TogglePause == TogglePauseOn(MainLedger, Admins)
UpgradePackage == UpgradePackageOn(MainLedger, PackageAccounts, AmountInputs)
BuyGiftCard ==
    BuyGiftCardOn(MainLedger, MaxBuys, Buyers, ReferrerInputs, UserAccounts,
                  AmountInputs)
GrantPackage == GrantPackageOn(MainLedger, Admins, PackageAccounts, AmountInputs)
UpdateCommissionConfig ==
    UpdateCommissionConfigOn(MainLedger, Admins, PercentageInputs, LevelInputs)
AddToBlacklist == AddToBlacklistOn(MainLedger, Admins, BlacklistInputs)
RemoveFromBlacklist == RemoveFromBlacklistOn(MainLedger, Admins, BlacklistInputs)

SecondInitialize == InitializeOn(SecondLedger, SecondOwners, SecondConfigs)
SecondBuy ==
    BuyGiftCardOn(SecondLedger, SecondBuys, SecondBuyers, ReferrerInputs,
                  SecondAccounts, SecondAmounts)
SecondGrant ==
    GrantPackageOn(SecondLedger, SecondOwners, PackageAccounts, SecondPackages)
SecondUpgrade == UpgradePackageOn(SecondLedger, PackageAccounts, SecondPackages)

Next ==
    \/ Initialize
    \/ UpdateConfig
    \/ TogglePause
    \/ UpgradePackage
    \/ BuyGiftCard
    \/ GrantPackage
    \/ UpdateCommissionConfig
    \/ AddToBlacklist
    \/ RemoveFromBlacklist
    \/ SecondInitialize
    \/ SecondBuy
    \/ SecondGrant
    \/ SecondUpgrade

Spec == Init /\ [][Next]_vars

----------------------------------------------------------------------------
(* The placement specification: purchases on one SolBox account under a    *)
(* referral_limit the owner changes, with a relationship history long      *)
(* enough for spillover                                                    *)

PlacementInitialize == InitializeOn(MainLedger, MainOwners, ConfigInputs)
PlacementBuy ==
    BuyGiftCardOn(MainLedger, MaxRel, PlacementBuyers, PlacementReferrers,
                  PlacementAccounts, PlacementAmounts)
PlacementConfig == UpdateConfigOn(MainLedger, PlacementAdmins, ConfigInputs)
PlacementPause == TogglePauseOn(MainLedger, PlacementAdmins)
PlacementUpgrade == UpgradePackageOn(MainLedger, PackageAccounts, PlacementAmounts)
PlacementGrant ==
    GrantPackageOn(MainLedger, PlacementAdmins, PackageAccounts, PlacementAmounts)
PlacementCommission ==
    UpdateCommissionConfigOn(MainLedger, PlacementAdmins, PlacementPercentages,
                             LevelInputs)
PlacementAdd == AddToBlacklistOn(MainLedger, PlacementAdmins, PlacementBlacklist)
PlacementRemove == RemoveFromBlacklistOn(MainLedger, PlacementAdmins, PlacementBlacklist)

NextPlacement ==
    \/ PlacementInitialize
    \/ PlacementBuy
    \/ PlacementConfig
    \/ PlacementPause
    \/ PlacementUpgrade
    \/ PlacementGrant
    \/ PlacementCommission
    \/ PlacementAdd
    \/ PlacementRemove

SpecPlacement == Init /\ [][NextPlacement]_vars

----------------------------------------------------------------------------
(* Properties.  An action property speaks of one instruction: last' holds  *)
(* its inputs and outcome, Pre and Post are the SolBox account it was sent *)
(* to before and after it, users and users' the User accounts.             *)

AdminOps ==
    {"update_config", "update_commission_config", "toggle_pause",
     "add_to_blacklist", "remove_from_blacklist", "grant_package"}

\* the SolBox account of the instruction, before and after it
Pre == solbox[last'.ledger]
Post == solbox'[last'.ledger]
\* the SolBox account of the last instruction, in the current state
Cur == solbox[last.ledger]

\* the instruction went through the account checks and ran handler op
Ran(op) == last'.op = op /\ Live(Pre)

\* number of relationships that record k as referrer
HeldBy(relationships, k) ==
    Cardinality({i \in DOMAIN relationships : relationships[i].referrer = k})

\* positions of the history whose referrer is below the limit
UnderLimit(relationships, limit) ==
    {i \in DOMAIN relationships :
        HeldBy(relationships, relationships[i].referrer) < limit}

Appended(sb) == sb.referral_relationships[Len(sb.referral_relationships)]

BoughtOk(call) == call.op = "buy_gift_card" /\ call.err = "Ok"

\* C1: a successful buy_gift_card computes commission = floor(amount *
\* commission_percentage / 100), bonus = floor(amount * bonus_percentage / 100)
\* and founder_share = amount - commission - bonus, transfers exactly
\* commission to the final referrer and exactly founder_share to the founder
\* wallet, and the three parts add up to amount.
C1_SplitExact ==
    [][BoughtOk(last') =>
        LET amount == last'.amount
            commission == (amount * Pre.config.commission_percentage) \div 100
            bonus == (amount * Pre.config.bonus_percentage) \div 100
            residual == amount - commission - bonus
        IN /\ last'.split.commission = commission
           /\ last'.split.bonus = bonus
           /\ last'.split.founder_share = residual
           /\ residual >= 0
           /\ last'.split.commission + last'.split.bonus
                  + last'.split.founder_share = amount
           /\ last'.transfers =
                  <<Transfer(last'.signer, Appended(Post).referrer, commission),
                    Transfer(last'.signer, Pre.founder_wallet, residual)>>
    ]_vars

\* a purchase redirected by spillover went through with a commission, a
\* withheld bonus and a founder share that are all non-zero
C1_Witness ==
    /\ BoughtOk(last)
    /\ last.split.final # last.referrer
    /\ last.split.bonus > 0
    /\ last.split.founder_share > 0
    /\ last.split.commission > 0

\* C2: total_commission_distributed <= total_sold in every reachable state
\* of a SolBox account, and no instruction decreases its total_sold or its
\* total_commission_distributed.
C2_Counters ==
    /\ [](\A l \in Ledgers : Live(solbox[l]) =>
             solbox[l].total_commission_distributed <= solbox[l].total_sold)
    /\ [][\A l \in Ledgers : Live(solbox[l]) =>
             /\ solbox'[l].total_sold >= solbox[l].total_sold
             /\ solbox'[l].total_commission_distributed
                    >= solbox[l].total_commission_distributed]_vars

\* purchases were made, then the owner set a commission percentage above 100
\* and a further purchase was attempted
C2_Witness ==
    /\ Live(Cur)
    /\ Cur.total_commission_distributed > 0
    /\ Cur.config.commission_percentage > 100
    /\ last.op = "buy_gift_card"

\* the failure kinds of the checks a handler makes on its inputs
CheckFailures ==
    {"ContractPaused", "Unauthorized", "InvalidAmount", "InvalidUpgrade",
     "SelfReferralNotAllowed", "UserBlacklisted", "NoSpilloverAvailable"}

\* a handler that returns a failure of its checks has written no account and
\* invoked no transfer
FailsBeforeWrite(r, sb, us) ==
    r.err \in CheckFailures =>
        r.solbox = sb /\ r.users = us /\ r.transfers = <<>>

\* C3: an instruction that fails, whatever the failure kind, leaves every
\* SolBox account and every User account as they were and no transfer of it
\* takes effect.  The part of the handlers in it: a check that fails returns
\* before any account is written or transfer invoked; a buy_gift_card or
\* upgrade_package in which a transfer fails, and a buy_gift_card whose
\* commission and bonus exceed the amount, returns an error (so that the
\* instruction is aborted) and never Ok; a purchase that returns Ok has made
\* both transfers.
C3_Atomic ==
    /\ [][last'.err # "Ok" =>
            /\ solbox' = solbox
            /\ users' = users
            /\ last'.transfers = <<>>
         ]_vars
    /\ [](\A l \in Ledgers : Live(solbox[l]) =>
             /\ \A user \in Buyers, referrer \in ReferrerInputs,
                   account \in UserAccounts, amount \in AmountInputs,
                   transfer1Ok \in BOOLEAN, transfer2Ok \in BOOLEAN :
                   LET r == buy_gift_card(solbox[l], users, user, referrer, account,
                                          amount, transfer1Ok, transfer2Ok)
                       cp == solbox[l].config.commission_percentage
                       bp == solbox[l].config.bonus_percentage
                   IN /\ FailsBeforeWrite(r, solbox[l], users)
                      /\ (~transfer1Ok \/ ~transfer2Ok) => r.err # "Ok"
                      /\ (amount * cp) \div 100 + (amount * bp) \div 100 > amount
                             => r.err # "Ok"
                      /\ r.err = "Ok" => Len(r.transfers) = 2
             /\ \A user \in PackageAccounts, new_package \in AmountInputs,
                   transferOk \in BOOLEAN :
                   LET r == upgrade_package(l, solbox[l], users, user, new_package,
                                            transferOk)
                   IN /\ FailsBeforeWrite(r, solbox[l], users)
                      /\ ~transferOk => r.err # "Ok"
                      /\ r.err = "Ok" => Len(r.transfers) = 1)

\* a buy_gift_card failed in the computation of the founder's share
\* (commission and bonus exceed the amount), after the counters were updated
\* and the commission transfer was invoked
C3_Witness ==
    /\ Live(Cur)
    /\ last.op = "buy_gift_card"
    /\ last.err = "ArithmeticError"
    /\ (last.amount * Cur.config.commission_percentage) \div 100
           + (last.amount * Cur.config.bonus_percentage) \div 100 > last.amount
    /\ Cur.total_sold > 0

\* C4: when the requested referrer holds at least referral_limit
\* relationships and some referrer of the history holds fewer, the purchase
\* does not fail for want of a slot, and the relationship a successful
\* purchase appends records the referrer of the first history entry (in
\* insertion order) whose referrer is below the limit, never the requested one.
C4_Spillover ==
    [][(/\ Ran("buy_gift_card")
        /\ HeldBy(Pre.referral_relationships, last'.referrer)
               >= Pre.config.referral_limit
        /\ UnderLimit(Pre.referral_relationships, Pre.config.referral_limit) # {})
       =>
        /\ last'.err # "NoSpilloverAvailable"
        /\ last'.err = "Ok" =>
            /\ Len(Post.referral_relationships)
                   = Len(Pre.referral_relationships) + 1
            /\ Appended(Post).referrer # last'.referrer
            /\ \E i \in UnderLimit(Pre.referral_relationships,
                                   Pre.config.referral_limit) :
                  /\ \A j \in UnderLimit(Pre.referral_relationships,
                                         Pre.config.referral_limit) : i <= j
                  /\ Appended(Post).referrer
                         = Pre.referral_relationships[i].referrer
    ]_vars

\* a purchase was redirected while two different referrers of the history
\* were below the limit
C4_Witness ==
    /\ BoughtOk(last)
    /\ last.split.final # last.referrer
    /\ \E k \in Wallets :
          /\ k # last.split.final
          /\ k # last.referrer
          /\ HeldBy(Cur.referral_relationships, k) > 0
          /\ HeldBy(Cur.referral_relationships, k) < Cur.config.referral_limit

\* the checks of buy_gift_card that come before the placement
PassesChecks(sb, call) ==
    /\ ~sb.paused
    /\ ~(\E i \in DOMAIN sb.blacklisted_users : sb.blacklisted_users[i] = call.signer)
    /\ \E i \in DOMAIN sb.config.valid_amounts : sb.config.valid_amounts[i] = call.amount
    /\ call.signer # call.referrer
    /\ call.amount * sb.config.commission_percentage <= U64_MAX
    /\ call.amount * sb.config.bonus_percentage <= U64_MAX

\* C5: when the requested referrer and every referrer of the history hold at
\* least referral_limit relationships, buy_gift_card fails (with
\* NoSpilloverAvailable when the earlier checks pass) and changes nothing.
C5_Exhaustion ==
    [][(/\ Ran("buy_gift_card")
        /\ HeldBy(Pre.referral_relationships, last'.referrer)
               >= Pre.config.referral_limit
        /\ UnderLimit(Pre.referral_relationships, Pre.config.referral_limit) = {})
       =>
        /\ last'.err # "Ok"
        /\ PassesChecks(Pre, last') => last'.err = "NoSpilloverAvailable"
        /\ solbox' = solbox
        /\ users' = users
        /\ last'.transfers = <<>>
    ]_vars

\* a purchase was refused for want of a slot in a non-empty history
C5_Witness ==
    /\ last.op = "buy_gift_card"
    /\ last.err = "NoSpilloverAvailable"
    /\ Len(Cur.referral_relationships) >= 2

\* C6: while a SolBox account is paused, the buy_gift_card and
\* upgrade_package sent to it fail with ContractPaused and transfer nothing;
\* until it is active again its total_sold, total_commission_distributed and
\* referral_relationships and every total_earnings stay as they are, and no
\* purchase or upgrade changes a User account or moves user funds.
C6_Paused ==
    [][\A l \in Ledgers : (Live(solbox[l]) /\ solbox[l].paused) =>
        /\ (last'.ledger = l /\ last'.op \in {"buy_gift_card", "upgrade_package"})
              => last'.err = "ContractPaused"
        /\ last'.op \in {"buy_gift_card", "upgrade_package"} =>
              /\ last'.transfers = <<>>
              /\ users' = users
        /\ solbox'[l].total_sold = solbox[l].total_sold
        /\ solbox'[l].total_commission_distributed
               = solbox[l].total_commission_distributed
        /\ solbox'[l].referral_relationships = solbox[l].referral_relationships
        /\ \A u \in UserAccounts : users'[u].total_earnings = users[u].total_earnings
    ]_vars

\* C7: while the ledger is active, the buy_gift_card and upgrade_package
\* calls of a blacklisted principal (the signer of the purchase, the owning
\* principal of the upgraded User record) fail with UserBlacklisted and
\* change nothing.
C7_Blacklisted ==
    [][(/\ Live(Pre)
        /\ ~Pre.paused
        /\ \/ /\ last'.op = "buy_gift_card"
              /\ Contains(Pre.blacklisted_users, last'.signer)
           \/ /\ last'.op = "upgrade_package"
              /\ Contains(Pre.blacklisted_users, users[last'.account].key))
       =>
        /\ last'.err = "UserBlacklisted"
        /\ solbox' = solbox
        /\ users' = users
    ]_vars

\* C8: an admin instruction signed by anyone but the owner of the SolBox
\* account it is sent to fails with Unauthorized and changes neither a
\* SolBox account (paused, config, blacklist) nor a User account, paused or
\* not.
C8_OwnerOnly ==
    [][(last'.op \in AdminOps /\ Live(Pre) /\ last'.signer # Pre.owner) =>
        /\ last'.err = "Unauthorized"
        /\ solbox' = solbox
        /\ users' = users
    ]_vars

\* a grant on a paused SolBox account was refused to a signer who is not its
\* owner but owns another SolBox account
C8_Witness ==
    /\ Live(Cur)
    /\ Cur.paused
    /\ last.op = "grant_package"
    /\ last.signer # Cur.owner
    /\ last.err = "Unauthorized"
    /\ \E l \in Ledgers : Live(solbox[l]) /\ solbox[l].owner = last.signer

\* C9: no instruction changes the config of a paused SolBox account, and no
\* instruction signed by a non-owner changes config.
C9_ConfigFrozenWhilePaused ==
    [][\A l \in Ledgers : Live(solbox[l]) =>
          /\ solbox[l].paused => solbox'[l].config = solbox[l].config
          /\ last'.signer # solbox[l].owner => solbox'[l].config = solbox[l].config
    ]_vars

\* C10: each principal is the user of at most one relationship of a SolBox
\* account.
C10_OneRelationshipPerUser ==
    \A l \in Ledgers : Live(solbox[l]) =>
        \A i, j \in DOMAIN solbox[l].referral_relationships :
            solbox[l].referral_relationships[i].user
                    = solbox[l].referral_relationships[j].user
                => i = j

\* C11: the User record whose total_earnings a successful buy_gift_card
\* increases belongs to the principal recorded as referrer in the appended
\* relationship, so each record's total_earnings is the sum of the
\* commissions of the relationships that record its principal as referrer.
C11_EarningsToFinalReferrer ==
    [][BoughtOk(last') =>
        /\ users[last'.account].key = Appended(Post).referrer
        /\ \A u \in UserAccounts :
              users'[u].total_earnings # users[u].total_earnings
                  => users[u].key = Appended(Post).referrer
    ]_vars

\* the checks of upgrade_package that come before the comparison of packages
PassesUpgradeChecks(sb, call) ==
    /\ ~sb.paused
    /\ ~(\E i \in DOMAIN sb.blacklisted_users : sb.blacklisted_users[i] = call.account)
    /\ \E i \in DOMAIN sb.config.valid_amounts : sb.config.valid_amounts[i] = call.amount

\* C12: upgrade_package succeeds only for a denomination of the valid_amounts
\* of the SolBox account it is sent to, above the record's current_package;
\* it then transfers exactly the difference from the user to that SolBox
\* account and sets current_package to the new package; a call with a
\* package <= current_package fails (with InvalidUpgrade when the earlier
\* checks pass) and changes nothing; no upgrade_package lowers
\* current_package.
C12_Upgrade ==
    [][Ran("upgrade_package") =>
        LET old == users[last'.account].current_package
            new == last'.amount
        IN /\ last'.err = "Ok" =>
                /\ \E i \in DOMAIN Pre.config.valid_amounts :
                      Pre.config.valid_amounts[i] = new
                /\ new > old
                /\ last'.transfers
                       = <<Transfer(last'.account, last'.ledger, new - old)>>
                /\ users'[last'.account].current_package = new
                /\ \A u \in UserAccounts \ {last'.account} : users'[u] = users[u]
                /\ solbox' = solbox
           /\ new <= old =>
                /\ last'.err # "Ok"
                /\ PassesUpgradeChecks(Pre, last') => last'.err = "InvalidUpgrade"
                /\ users' = users
                /\ last'.transfers = <<>>
           /\ \A u \in UserAccounts :
                users'[u].current_package >= users[u].current_package
    ]_vars

\* an upgrade to the package the record already holds, granted through
\* another SolBox account, was refused
C12_Witness ==
    /\ last.op = "upgrade_package"
    /\ last.err = "InvalidUpgrade"
    /\ last.amount = users[last.account].current_package
    /\ last.amount > 0
    /\ \A l \in Ledgers : Live(solbox[l])

\* C13: after a successful buy_gift_card the buyer's current_package is at
\* least the amount bought.
C13_PackageCoversPurchase ==
    [][BoughtOk(last') =>
        \A u \in UserAccounts :
            users'[u].key = last'.signer => users'[u].current_package >= last'.amount
    ]_vars

\* C14: commission_percentage and bonus_percentage each lie in [0,100] and
\* their sum is at most 100.
C14_PercentagesInRange ==
    \A l \in Ledgers : Live(solbox[l]) =>
        /\ solbox[l].config.commission_percentage \in 0..100
        /\ solbox[l].config.bonus_percentage \in 0..100
        /\ solbox[l].config.commission_percentage
               + solbox[l].config.bonus_percentage <= 100

\* C15: referral_count equals the number of relationships in every reachable
\* state of a SolBox account; a successful buy_gift_card sent to it appends
\* exactly one relationship and nothing else changes or removes an entry.
C15_CountIsLength ==
    /\ [](\A l \in Ledgers : Live(solbox[l]) =>
             solbox[l].referral_count = Len(solbox[l].referral_relationships))
    /\ [][\A l \in Ledgers : Live(solbox[l]) =>
             LET old == solbox[l].referral_relationships
                 new == solbox'[l].referral_relationships
             IN IF BoughtOk(last') /\ last'.ledger = l
                THEN /\ Len(new) = Len(old) + 1
                     /\ SubSeq(new, 1, Len(old)) = old
                     /\ new[Len(new)].user = last'.signer
                ELSE new = old
         ]_vars

\* an admin instruction went through on a SolBox account that holds two
\* relationships
C15_Witness ==
    /\ Live(Cur)
    /\ Len(Cur.referral_relationships) >= 2
    /\ last.op \in AdminOps
    /\ last.err = "Ok"

\* C16: in every reachable state the referrer buy_gift_card chooses (search
\* consulted once referral_count >= referral_limit) is the one the search
\* returns when consulted unconditionally, and a requested referrer that
\* holds fewer than referral_limit relationships is the one recorded.
C16_GuardEquivalent ==
    /\ [](\A l \in Ledgers : Live(solbox[l]) =>
             \A referrer \in Wallets :
                 resolve_final_referrer(solbox[l], referrer)
                     = find_spillover_position(solbox[l].referral_relationships,
                                               referrer,
                                               solbox[l].config.referral_limit))
    /\ [][(/\ BoughtOk(last')
           /\ HeldBy(Pre.referral_relationships, last'.referrer)
                  < Pre.config.referral_limit)
          => Appended(Post).referrer = last'.referrer
         ]_vars

\* a purchase kept its requested referrer although the ledger already held
\* referral_limit relationships or more
C16_Witness ==
    /\ BoughtOk(last)
    /\ last.split.final = last.referrer
    /\ Len(Cur.referral_relationships) - 1 >= Cur.config.referral_limit
    /\ Cur.config.referral_limit > 0

\* C17: no relationship records a principal as its own referrer.
C17_NoSelfReferral ==
    \A l \in Ledgers : Live(solbox[l]) =>
        \A i \in DOMAIN solbox[l].referral_relationships :
            solbox[l].referral_relationships[i].user
                # solbox[l].referral_relationships[i].referrer

\* the largest referral_limit the owner can put in force in the model
MaxLimitInput ==
    CHOOSE m \in {c.referral_limit : c \in ConfigInputs} :
        \A c \in ConfigInputs : c.referral_limit <= m

Max(a, b) == IF a >= b THEN a ELSE b

\* C18: an instruction raises the number of relationships a principal holds
\* as referrer at most up to the referral_limit in force, so no principal
\* holds more than the largest limit that was ever in force, and none more
\* than 255.
C18_Capacity ==
    /\ [](\A l \in Ledgers : Live(solbox[l]) =>
             \A k \in Wallets :
                 /\ HeldBy(solbox[l].referral_relationships, k) <= MaxLimitInput
                 /\ HeldBy(solbox[l].referral_relationships, k) <= U8_MAX)
    /\ [][\A l \in Ledgers : Live(solbox[l]) =>
             \A k \in Wallets :
                 HeldBy(solbox'[l].referral_relationships, k)
                     <= Max(HeldBy(solbox[l].referral_relationships, k),
                            solbox[l].config.referral_limit)
         ]_vars

\* a purchase went through while some referrer holds more relationships than
\* the lowered referral_limit allows
C18_Witness ==
    /\ BoughtOk(last)
    /\ \E k \in Wallets :
          HeldBy(Cur.referral_relationships, k) > Cur.config.referral_limit

RECURSIVE SumEarnings(_, _)
SumEarnings(us, accounts) ==
    IF accounts = {} THEN 0
    ELSE LET u == CHOOSE x \in accounts : TRUE
         IN us[u].total_earnings + SumEarnings(us, accounts \ {u})

\* C19: the total_earnings of all User records add up to the
\* total_commission_distributed of the SolBox account; a successful
\* buy_gift_card adds its commission to both and no other instruction
\* changes either.
C19_EarningsSum ==
    /\ [](\A l \in Ledgers : Live(solbox[l]) =>
             SumEarnings(users, UserAccounts) = solbox[l].total_commission_distributed)
    /\ [][\A l \in Ledgers : Live(solbox[l]) =>
             IF BoughtOk(last')
             THEN /\ solbox'[l].total_commission_distributed
                         = solbox[l].total_commission_distributed
                               + last'.split.commission
                  /\ SumEarnings(users', UserAccounts)
                         = SumEarnings(users, UserAccounts) + last'.split.commission
             ELSE /\ solbox'[l].total_commission_distributed
                         = solbox[l].total_commission_distributed
                  /\ \A u \in UserAccounts :
                         users'[u].total_earnings = users[u].total_earnings
         ]_vars

OwnerToggle(call, sb) == call.op = "toggle_pause" /\ call.signer = sb.owner

\* C20: a SolBox account is active after initialize; a toggle_pause sent to
\* it by its owner succeeds, paused or not, and negates paused; no other
\* instruction changes paused; from every paused state the owner's
\* toggle_pause gives an active one, and two owner toggles in a row give
\* back the pause state.
C20_PauseMachine ==
    /\ [][(last'.op = "initialize" /\ last'.err = "Ok") =>
             /\ ~Live(Pre)
             /\ ~Post.paused
             /\ Post.owner = last'.signer
         ]_vars
    /\ [][\A l \in Ledgers : Live(solbox[l]) =>
             IF OwnerToggle(last', solbox[l]) /\ last'.ledger = l
             THEN last'.err = "Ok" /\ solbox'[l].paused = ~solbox[l].paused
             ELSE solbox'[l].paused = solbox[l].paused
         ]_vars
    /\ [](\A l \in Ledgers : Live(solbox[l]) =>
             LET once == toggle_pause(solbox[l], users, solbox[l].owner)
                 twice == toggle_pause(once.solbox, once.users, solbox[l].owner)
             IN /\ once.err = "Ok"
                /\ solbox[l].paused =>
                      /\ ~once.solbox.paused
                      /\ \A user \in Buyers, referrer \in ReferrerInputs,
                            amount \in AmountInputs :
                            buy_gift_card(once.solbox, once.users, user, referrer,
                                          "u3", amount, TRUE, TRUE).err
                                # "ContractPaused"
                /\ twice.err = "Ok"
                /\ twice.solbox.paused = solbox[l].paused)

\* the owner's toggle_pause put a paused SolBox account that holds purchases
\* back to active while another SolBox account exists
C20_Witness ==
    /\ last.op = "toggle_pause"
    /\ last.err = "Ok"
    /\ ~Cur.paused
    /\ Len(Cur.referral_relationships) > 0
    /\ \A l \in Ledgers : Live(solbox[l])

====
